---- MODULE Spec2Model ----
(***************************************************************************)
(* makemahjongg: tileset creator for GNOME Mahjongg.                       *)
(*                                                                         *)
(* A model of src/src/makemahjongg/tileutil.py and __main__.py.            *)
(*   SpecScale    mktilepair: the two-step fit, the resize and the paste   *)
(*                position, for every source size up to MaxDim x MaxDim.   *)
(*   SpecParse    parseparams: the filename parameter scan.                *)
(*   SpecTileset  main / mktileset: enumeration, sort, per-file            *)
(*                processing, bonus frames, pastes and the final save.     *)
(***************************************************************************)
EXTENDS Integers, Sequences, FiniteSets

\* ------------------------------------------------------------ constants
TILE_WIDTH == 96
TILE_CONTENTWIDTH == 80
TILE_HEIGHT == 132
TILE_CONTENTHEIGHT == 116
TILE_CONTENTXOFFSET == 6
TILE_CONTENTYOFFSET == -6
\* SELECTED_BRIGHTNESS_FACTOR = 1.25, kept in percent
SELECTED_BRIGHTNESS_FACTOR == 125
BONUS_GROUP_1_INDEX == 33
BONUS_GROUP_2_INDEX == 38

\* Python's None
None == "None"
\* check_bonus_group's None, among its results 1 and 2; it is falsy as 0 is
NoGroup == 0

\* ------------------------------------------------------------ bounds
\* source images are 1..MaxDim pixels wide and high
MaxDim == 120
\* file names of up to MaxNameLen tokens are scanned for parameters
MaxNameLen == 6
\* source directories hold up to MaxFiles files
MaxFiles == 43

VARIABLES
    \* mktilepair
    tpc,        \* position in mktilepair
    w, h,       \* srcimg.size
    scale,      \* the scale factor, an exact fraction <<numerator, denominator>>
    w_scaled, h_scaled,
    x_dst, y_dst,
    \* parseparams
    ppc,        \* position in parseparams
    file,       \* the file path, a sequence of tokens
    parsed,     \* the returned dict
    messages,   \* the messages collected
    stdout,     \* the lines printed so far
    \* main and mktileset
    pc,         \* position in main
    argv,       \* the command line
    isdir,      \* path.isdir(source_dir)
    globbed,    \* what glob(source_dir/*) returns, in the order it returns it
    files,      \* sorted(glob(...))
    i,          \* the loop index of mktileset: the files before i are done
    bonus_group, \* check_bonus_group of the file processed last
    tileset,    \* the canvas: the pastes made on the blank tileset, in order
    error,      \* what raised, None while nothing has
    saves,      \* the number of calls of tileset.save
    output      \* the output file: <<>> while there is none, then <<the image>>

scaleVars == <<tpc, w, h, scale, w_scaled, h_scaled, x_dst, y_dst>>
parseVars == <<ppc, file, parsed, messages>>
mainVars == <<pc, argv, isdir, globbed, files, i, bonus_group, tileset, error, saves, output>>
vars == <<scaleVars, parseVars, stdout, mainVars>>

\* ------------------------------------------------------------ parseparams
\* A file path is a sequence of tokens.  "_", "." and "/" are those
\* characters; every other token is a word: a run of characters other than
\* these three (a digit is a word of one character).  Every step of the scan
\* below starts or stops next to a "_" or a ".", so it never splits a word,
\* and no two adjacent words of this model join to a key or value the code
\* recognizes.
Words == {"resample", "RESAMPLE", "NEAREST", "LANCZOS", "foo", "png", "src"} \cup
         {"0", "1", "2", "3", "4", "5", "6", "7", "8", "9"}

IsWord(t) == t \notin {"_", ".", "/"}

\* No two words are adjacent: the words are the maximal runs.
WellTokenized(s) == \A k \in 1..(Len(s) - 1) : ~(IsWord(s[k]) /\ IsWord(s[k + 1]))

\* Image.Resampling.__members__, as far as the docstring names them.
ResamplingMembers == {"NEAREST", "LANCZOS"}

\* str.lower() of a token
Lower(t) ==
    CASE t = "RESAMPLE" -> "resample"
      [] t = "NEAREST" -> "nearest"
      [] t = "LANCZOS" -> "lanczos"
      [] OTHER -> t

LowerSeq(s) == [k \in DOMAIN s |-> Lower(s[k])]

EmptyDict == [k \in {} |-> None]

\* dict[key] = value
DictSet(d, key, value) ==
    [k \in DOMAIN d \cup {key} |-> IF k = key THEN value ELSE d[k]]

\* d.get(key)
DictGet(d, key) == IF key \in DOMAIN d THEN d[key] ELSE None

MinOf(S) == CHOOSE x \in S : \A y \in S : x <= y

\* path.basename: what follows the last "/".
Basename(path) ==
    LET slashes == {k \in DOMAIN path : path[k] = "/"}
    IN  IF slashes = {} THEN path
        ELSE SubSeq(path, (CHOOSE k \in slashes : \A j \in slashes : j <= k) + 1, Len(path))

\* re_param matched at position pos of s:
\*     __(?P<param>.+?)_(?P<value>.+?)(?=__|\.)
\* Both groups are lazy: the shortest param for which the rest matches, then
\* the shortest value followed by "__" or ".".  The result is <<param, value,
\* end>> with end the position after the match, or <<>> for no match.
MatchAt(s, pos) ==
    LET n == Len(s)
        a == pos + 2
        Ahead(e) == /\ e <= n
                    /\ \/ s[e] = "."
                       \/ e + 1 <= n /\ s[e] = "_" /\ s[e + 1] = "_"
        ValueLens(p) == {v \in 1..n : Ahead(a + p + 1 + v)}
        ParamLens == {p \in 1..n : a + p <= n /\ s[a + p] = "_" /\ ValueLens(p) # {}}
    IN  IF pos + 1 <= n /\ s[pos] = "_" /\ s[pos + 1] = "_" /\ ParamLens # {}
        THEN LET p == MinOf(ParamLens)
                 v == MinOf(ValueLens(p))
             IN  <<SubSeq(s, a, a + p - 1), SubSeq(s, a + p + 1, a + p + v), a + p + 1 + v>>
        ELSE <<>>

\* re_param.findall(s) from position pos on: the non-overlapping matches,
\* left to right, as <<param, value>> pairs.
RECURSIVE FindAllFrom(_, _)
FindAllFrom(s, pos) ==
    IF pos > Len(s) THEN <<>>
    ELSE LET m == MatchAt(s, pos)
         IN  IF m = <<>> THEN FindAllFrom(s, pos + 1)
             ELSE <<<<m[1], m[2]>>>> \o FindAllFrom(s, m[3])

FindAll(s) == FindAllFrom(s, 1)

MsgInvalidValue == <<"Invalid value for parameter '", "resample", "'.">>

MsgUnknown(key) == <<"Unknown parameter '">> \o key \o <<"'.">>

\* Lines 132-139: one (key, value) of the loop, on st = [parsed, messages].
ParamStep(st, key, value) ==
    IF LowerSeq(key) = <<"resample">>
    THEN IF Len(value) = 1 /\ value[1] \in ResamplingMembers
         THEN [st EXCEPT !.parsed = DictSet(st.parsed, "resample", value[1])]
         ELSE [st EXCEPT !.messages = Append(st.messages, MsgInvalidValue)]
    ELSE [st EXCEPT !.messages = Append(st.messages, MsgUnknown(key))]

\* Lines 129-139: the loop over params[k..].
RECURSIVE ParamLoop(_, _, _)
ParamLoop(st, params, k) ==
    IF k > Len(params) THEN st
    ELSE ParamLoop(ParamStep(st, params[k][1], params[k][2]), params, k + 1)

\* Lines 141-144: the lines printed for a file.
PrintedLines(basename, msgs) ==
    IF msgs = <<>> THEN <<>>
    ELSE <<basename \o <<":">>>> \o [k \in DOMAIN msgs |-> <<"  ">> \o msgs[k]]

\* Lines 127-146: [parsed, messages, printed] for a file path.
parseparams(f) ==
    LET basename == Basename(f)
        params == FindAll(basename)
        st == ParamLoop([parsed |-> EmptyDict, messages |-> <<>>], params, 1)
    IN  [parsed |-> st.parsed, messages |-> st.messages,
         printed |-> PrintedLines(basename, st.messages)]

\* ------------------------------------------------------------ mktilepair
Max2(a, b) == IF a >= b THEN a ELSE b

Abs(a) == IF a >= 0 THEN a ELSE -a

RECURSIVE GCD(_, _)
GCD(a, b) == IF b = 0 THEN a ELSE GCD(b, a % b)

RECURSIVE IsPow2(_)
IsPow2(n) == IF n = 1 THEN TRUE ELSE IF n % 2 = 1 THEN FALSE ELSE IsPow2(n \div 2)

\* Whether the float quotient a / b is the exact quotient: a/b in lowest
\* terms has a power of two as denominator (the numbers here are far below
\* 2^53).
Dyadic(a, b) == IsPow2(b \div GCD(a, b))

\* int(x) of the float x whose exact value is n/d (n >= 0, d > 0).  x is the
\* rounded product of rounded quotients.  When n/d is not an integer the
\* truncation is floor(n/d).  When n/d is an integer k >= 1 and a quotient
\* was rounded (exact = FALSE), x is k or lies a rounding step below it (as
\* (1/49)*49 does), and int() gives k or k - 1.
TruncSet(n, d, exact) ==
    IF n % d = 0 /\ n \div d >= 1 /\ ~exact
    THEN {n \div d, (n \div d) - 1}
    ELSE {n \div d}

\* scale *= bound / k
Shrink(s, bound, k) == <<s[1] * bound, s[2] * k>>

\* Fit without its second step: the other axis is never checked.
FitNoShrink(long, bound, other, otherBound) ==
    LET s == <<bound, long>>
        e == Dyadic(bound, long)
    IN  { <<s, ls, k>> : ls \in TruncSet(s[1] * long, s[2], e),
                         k \in TruncSet(s[1] * other, s[2], e) }

\* Fit with the overflowing axis clamped to its bound instead of the scale
\* being shrunk.
FitClamp(long, bound, other, otherBound) ==
    LET s == <<bound, long>>
        e == Dyadic(bound, long)
    IN  { <<s, ls, IF k > otherBound THEN otherBound ELSE k>> :
             ls \in TruncSet(s[1] * long, s[2], e),
             k \in TruncSet(s[1] * other, s[2], e) }

\* The fit along the longer axis (length long, box bound), the other axis
\* (length other, box bound otherBound) being checked with the floor of its
\* scaled length: the set of <<scale, long_scaled, other_scaled>>.  When the
\* scale is not shrunk, the last line evaluates int(scale * other) a second
\* time on the same floats and yields the value the test saw.
Fit(long, bound, other, otherBound) ==
    LET s == <<bound, long>>
        e == Dyadic(bound, long)
    IN  UNION { IF k > otherBound
                THEN LET s2 == Shrink(s, otherBound, k)
                         e2 == e /\ Dyadic(otherBound, k)
                     IN  { <<s2, ls, os>> : ls \in TruncSet(s2[1] * long, s2[2], e2),
                                            os \in TruncSet(s2[1] * other, s2[2], e2) }
                ELSE { <<s, ls, k>> : ls \in TruncSet(s[1] * long, s[2], e) }
              : k \in TruncSet(s[1] * other, s[2], e) }

\* Lines 92-101: the results <<scale, w_scaled, h_scaled>> for a w0 x h0 image.
FitResults(w0, h0) ==
    IF w0 > h0
    THEN { <<r[1], r[2], r[3]>> :
             r \in Fit(w0, TILE_CONTENTWIDTH, h0, TILE_CONTENTHEIGHT) }
    ELSE { <<r[1], r[3], r[2]>> :
             r \in Fit(h0, TILE_CONTENTHEIGHT, w0, TILE_CONTENTWIDTH) }

\* Lines 108-109.
PasteX(ws) == TILE_CONTENTXOFFSET + ((TILE_WIDTH - ws) \div 2)

\* PasteY centring in the content box instead of the tile.
PasteYInContentBox(hs) ==
    TILE_CONTENTYOFFSET + ((TILE_CONTENTHEIGHT - hs) \div 2)

PasteY(hs) == TILE_CONTENTYOFFSET + ((TILE_HEIGHT - hs) \div 2)

IdleScale ==
    /\ tpc = "idle"
    /\ w = 0 /\ h = 0
    /\ scale = <<0, 1>>
    /\ w_scaled = 0 /\ h_scaled = 0
    /\ x_dst = 0 /\ y_dst = 0

IdleParse ==
    /\ ppc = "idle"
    /\ file = <<>>
    /\ parsed = EmptyDict
    /\ messages = <<>>

IdleMain ==
    /\ pc = "idle"
    /\ argv = <<>>
    /\ isdir = FALSE
    /\ globbed = <<>>
    /\ files = <<>>
    /\ i = 0
    /\ bonus_group = NoGroup
    /\ tileset = <<>>
    /\ error = None
    /\ saves = 0
    /\ output = <<>>

InitScale ==
    /\ IdleParse /\ IdleMain /\ stdout = <<>>
    /\ tpc = "start"
    /\ w = 0 /\ h = 0
    /\ scale = <<0, 1>>
    /\ w_scaled = 0 /\ h_scaled = 0
    /\ x_dst = 0 /\ y_dst = 0

\* Lines 88-91: the source image is opened; its size is the input.
OpenSource ==
    /\ tpc = "start"
    /\ \E w0 \in 1..MaxDim, h0 \in 1..MaxDim : w' = w0 /\ h' = h0
    /\ tpc' = "opened"
    /\ UNCHANGED <<scale, w_scaled, h_scaled, x_dst, y_dst, parseVars, stdout, mainVars>>

\* Lines 92-101.
ComputeScale ==
    /\ tpc = "opened"
    /\ \E r \in FitResults(w, h) :
          /\ scale' = r[1]
          /\ w_scaled' = r[2]
          /\ h_scaled' = r[3]
    /\ tpc' = "scaled"
    /\ UNCHANGED <<w, h, x_dst, y_dst, parseVars, stdout, mainVars>>

\* Lines 102-105: srcimg.resize((w_scaled, h_scaled), ...).  What the imaging
\* library does with an empty size is not this program's code: it raises or
\* returns an empty image.
Resize ==
    /\ tpc = "scaled"
    /\ \/ tpc' = "resized"
       \/ (w_scaled < 1 \/ h_scaled < 1) /\ tpc' = "failed"
    /\ UNCHANGED <<w, h, scale, w_scaled, h_scaled, x_dst, y_dst, parseVars, stdout, mainVars>>

\* Lines 107-115: the paste position, used for the normal and the selected tile.
PasteContent ==
    /\ tpc = "resized"
    /\ x_dst' = PasteX(w_scaled)
    /\ y_dst' = PasteY(h_scaled)
    /\ tpc' = "pasted"
    /\ UNCHANGED <<w, h, scale, w_scaled, h_scaled, parseVars, stdout, mainVars>>

\* ------------------------------------------------------------ parseparams runs
\* The names scanned: every well-tokenized name of up to MaxNameLen tokens
\* over NameTokens (the sequences of n tokens are the functions on 1..n), and
\* the names with one or two parameter segments.
NameTokens == {"_", ".", "resample", "RESAMPLE", "NEAREST", "foo"}

SegKeys == {"resample", "RESAMPLE", "foo"}

SegValues == {"NEAREST", "LANCZOS", "foo"}

\* __K_V
Segment(kv) == <<"_", "_", kv[1], "_", kv[2]>>

RECURSIVE Segments(_)
Segments(kvs) == IF kvs = <<>> THEN <<>> ELSE Segment(Head(kvs)) \o Segments(Tail(kvs))

\* <base>__K_V[__K_V].<ext>
SegmentName(base, kvs, ext) == <<base>> \o Segments(kvs) \o <<".", ext>>

KVLists == {<<kv>> : kv \in SegKeys \X SegValues} \cup
           {<<kv1, kv2>> : kv1 \in SegKeys \X SegValues, kv2 \in SegKeys \X SegValues}

SegmentNames == {SegmentName("1", kvs, "png") : kvs \in KVLists}

SourceDir == <<"src">>

InitParse ==
    /\ IdleScale /\ IdleMain /\ stdout = <<>>
    /\ ppc = "call"
    /\ \/ \E n \in 0..MaxNameLen : \E name \in [1..n -> NameTokens] :
             WellTokenized(name) /\ file = SourceDir \o <<"/">> \o name
       \/ \E name \in SegmentNames : file = SourceDir \o <<"/">> \o name
    /\ parsed = EmptyDict
    /\ messages = <<>>

\* Lines 120-146: parseparams(file).
ParseParams ==
    /\ ppc = "call"
    /\ LET r == parseparams(file)
       IN  /\ parsed' = r.parsed
           /\ messages' = r.messages
           /\ stdout' = stdout \o r.printed
    /\ ppc' = "returned"
    /\ UNCHANGED <<file, scaleVars, mainVars>>

NextParse == ParseParams

SpecParse == InitParse /\ [][NextParse]_vars

NextScale ==
    \/ OpenSource
    \/ ComputeScale
    \/ Resize
    \/ PasteContent

SpecScale == InitScale /\ [][NextScale]_vars

\* ------------------------------------------------------------ mktileset
\* The code point of a token's first character.  The tokens of this model
\* differ in their first characters, so comparing token sequences by it is
\* comparing the strings by code points, as Python's str comparison does.
CharCode(t) ==
    CASE t = "." -> 46 [] t = "/" -> 47 [] t = "_" -> 95
      [] t = "0" -> 48 [] t = "1" -> 49 [] t = "2" -> 50 [] t = "3" -> 51
      [] t = "4" -> 52 [] t = "5" -> 53 [] t = "6" -> 54 [] t = "7" -> 55
      [] t = "8" -> 56 [] t = "9" -> 57
      [] t = "LANCZOS" -> 76 [] t = "NEAREST" -> 78 [] t = "RESAMPLE" -> 82
      [] t = "foo" -> 102 [] t = "png" -> 112 [] t = "resample" -> 114
      [] t = "src" -> 115

\* a < b on str
RECURSIVE StrLess(_, _)
StrLess(a, b) ==
    IF a = <<>> THEN b # <<>>
    ELSE IF b = <<>> THEN FALSE
    ELSE IF a[1] # b[1] THEN CharCode(a[1]) < CharCode(b[1])
    ELSE StrLess(Tail(a), Tail(b))

\* x put into the sorted list l, after the elements not greater than it
RECURSIVE Insert(_, _)
Insert(x, l) ==
    IF l = <<>> THEN <<x>>
    ELSE IF StrLess(x, Head(l)) THEN <<x>> \o l
    ELSE <<Head(l)>> \o Insert(x, Tail(l))

\* sorted without sorting: the list as glob returned it.
Unsorted(l) == l

\* l in ascending order by <, equal elements in their order in l
RECURSIVE InsertionSort(_)
InsertionSort(l) ==
    IF l = <<>> THEN <<>>
    ELSE Insert(l[Len(l)], InsertionSort(SubSeq(l, 1, Len(l) - 1)))

\* sorted(l)
sorted(l) == InsertionSort(l)

\* BONUS_GROUP_COLORS[1] and [2]: the (normal, selected) colors
BONUS_GROUP_COLORS ==
    <<None, <<"#d819ea", "#f58bff">>, <<"#1dbf4e", "#77e998">>>>

\* check_bonus_group with <= 4 for < 4
check_bonus_group_le(idx) ==
    IF idx - BONUS_GROUP_1_INDEX >= 0 /\ idx - BONUS_GROUP_1_INDEX <= 4 THEN 1
    ELSE IF idx - BONUS_GROUP_2_INDEX >= 0 /\ idx - BONUS_GROUP_2_INDEX <= 4 THEN 2
    ELSE NoGroup

\* Lines 156-160.
check_bonus_group(idx) ==
    IF idx - BONUS_GROUP_1_INDEX >= 0 /\ idx - BONUS_GROUP_1_INDEX < 4 THEN 1
    ELSE IF idx - BONUS_GROUP_2_INDEX >= 0 /\ idx - BONUS_GROUP_2_INDEX < 4 THEN 2
    ELSE NoGroup

\* Lines 107-117, as far as mktileset sees them: the pair <<tile,
\* tile_selected>> made from file f.  A tile is its background, the source
\* pasted on it with the resampling filter and brightness (in percent) used,
\* and the frame drawn on it.
mktilepair(f, resample) ==
    LET filter == IF resample # None THEN resample ELSE "LANCZOS"
    IN  << [bg |-> "blank", src |-> f, resample |-> filter,
            brightness |-> 100, frame |-> None],
           [bg |-> "blank_selected", src |-> f, resample |-> filter,
            brightness |-> SELECTED_BRIGHTNESS_FACTOR, frame |-> None] >>

\* apply_bonus_group_frame drawing the normal color on both tiles.
apply_bonus_group_frame_one_color(group, pair) ==
    LET colors == BONUS_GROUP_COLORS[group + 1]
    IN  << [pair[1] EXCEPT !.frame = colors[1]],
           [pair[2] EXCEPT !.frame = colors[1]] >>

\* Lines 170-182: the pair with the group's outline drawn on both tiles.
apply_bonus_group_frame(group, pair) ==
    LET colors == BONUS_GROUP_COLORS[group + 1]
    IN  << [pair[1] EXCEPT !.frame = colors[1]],
           [pair[2] EXCEPT !.frame = colors[2]] >>

\* The paste position with the content width as the column pitch.
CellXContentWidth(idx) == idx * TILE_CONTENTWIDTH

\* Lines 201-202: the x of both pastes of index idx.
CellX(idx) == idx * TILE_WIDTH

\* Lines 194-199: the pair made for the file at index idx.
TilePairFor(f, idx) ==
    LET params == parseparams(f).parsed
        pair == mktilepair(f, DictGet(params, "resample"))
        group == check_bonus_group(idx)
    IN  IF group # NoGroup THEN apply_bonus_group_frame(group, pair) ELSE pair

\* Lines 201-202: the two pastes of a pair at index idx.
Pastes(pair, idx) ==
    << [img |-> pair[1], x |-> CellX(idx), y |-> 0],
       [img |-> pair[2], x |-> CellX(idx), y |-> TILE_HEIGHT] >>

\* ------------------------------------------------------------ main
Digits == <<"0", "1", "2", "3", "4", "5", "6", "7", "8", "9">>

\* The n-th file of a big directory: 00.png, 01.png, ...
NumberedName(n) == <<Digits[(n \div 10) + 1], Digits[(n % 10) + 1], ".", "png">>

\* The files of a small directory; "10" sorts before "2".
SmallNames ==
    { <<"2">>, <<"1", "0">>, <<"1">>,
      <<"1", "_", "_", "resample", "_", "NEAREST", ".", "png">>,
      <<"1", "_", "_", "resample", "_", "foo", ".", "png">> }

Injective(f) == \A a, b \in DOMAIN f : a # b => f[a] # f[b]

\* glob's results: the files of a directory in any order.  Every order of
\* every small directory, and the big directories of n numbered files in
\* ascending and in descending order.
InPath(name) == SourceDir \o <<"/">> \o name

IsEnumeration(g) ==
    \/ \E n \in 0..Cardinality(SmallNames) : \E f \in [1..n -> SmallNames] :
          Injective(f) /\ g = [k \in 1..n |-> InPath(f[k])]
    \/ \E n \in 0..MaxFiles :
          \/ g = [k \in 1..n |-> InPath(NumberedName(k - 1))]
          \/ g = [k \in 1..n |-> InPath(NumberedName(n - k))]

InitMain ==
    /\ IdleScale /\ IdleParse /\ stdout = <<>>
    /\ pc = "main"
    /\ \/ /\ argv \in {<<"makemahjongg">>, <<"makemahjongg", "src">>}
          /\ isdir = FALSE /\ globbed = <<>>
       \/ /\ argv = <<"makemahjongg", "src", "out">>
          /\ \/ isdir = FALSE /\ globbed = <<>>
             \/ isdir = TRUE /\ IsEnumeration(globbed)
    /\ files = <<>>
    /\ i = 0
    /\ bonus_group = NoGroup
    /\ tileset = <<>>
    /\ error = None
    /\ saves = 0
    /\ output = <<>>

\* __main__.py lines 8-10.
MainUsage ==
    /\ pc = "main"
    /\ Len(argv) < 3
    /\ stdout' = Append(stdout, <<"Usage: ", argv[1], " source_dir output_file">>)
    /\ error' = "usage"
    /\ pc' = "exit"
    /\ UNCHANGED <<argv, isdir, globbed, files, i, bonus_group, tileset, saves, output,
                   scaleVars, parseVars>>

\* __main__.py lines 14-16.
MainNotDir ==
    /\ pc = "main"
    /\ Len(argv) >= 3
    /\ ~isdir
    /\ stdout' = Append(stdout, <<argv[2], " is not a directory.">>)
    /\ error' = "notdir"
    /\ pc' = "exit"
    /\ UNCHANGED <<argv, isdir, globbed, files, i, bonus_group, tileset, saves, output,
                   scaleVars, parseVars>>

\* __main__.py line 18, tileutil.py lines 192-193: the blank tileset is
\* opened, the files are enumerated and sorted.
StartTileset ==
    /\ pc = "main"
    /\ Len(argv) >= 3
    /\ isdir
    /\ tileset' = <<>>
    /\ files' = sorted(globbed)
    /\ i' = 0
    /\ pc' = "loop"
    /\ UNCHANGED <<argv, isdir, globbed, bonus_group, error, saves, output, stdout,
                   scaleVars, parseVars>>

\* Line 192 raising: the blank tileset cannot be opened.
StartTilesetRaises ==
    /\ pc = "main"
    /\ Len(argv) >= 3
    /\ isdir
    /\ error' = "asset"
    /\ pc' = "exit"
    /\ UNCHANGED <<argv, isdir, globbed, files, i, bonus_group, tileset, saves, output,
                   stdout, scaleVars, parseVars>>

\* Lines 194-202: one round of the loop, for files[i + 1] at index i.
ProcessFile ==
    /\ pc = "loop"
    /\ i < Len(files)
    /\ LET f == files[i + 1]
       IN  /\ stdout' = stdout \o parseparams(f).printed
           /\ bonus_group' = check_bonus_group(i)
           /\ tileset' = tileset \o Pastes(TilePairFor(f, i), i)
    /\ i' = i + 1
    /\ UNCHANGED <<pc, argv, isdir, globbed, files, error, saves, output,
                   scaleVars, parseVars>>

\* A round in which the failure of mktilepair is caught and the file skipped.
ProcessFileSkips ==
    /\ pc = "loop"
    /\ i < Len(files)
    /\ stdout' = stdout \o parseparams(files[i + 1]).printed
    /\ i' = i + 1
    /\ UNCHANGED <<pc, argv, isdir, globbed, files, bonus_group, tileset, error, saves,
                   output, scaleVars, parseVars>>

\* Lines 194-195 with mktilepair raising (the file is no image, or cannot be
\* resized): the exception leaves mktileset and main.
ProcessFileRaises ==
    /\ pc = "loop"
    /\ i < Len(files)
    /\ stdout' = stdout \o parseparams(files[i + 1]).printed
    /\ error' = "file"
    /\ pc' = "exit"
    /\ UNCHANGED <<argv, isdir, globbed, files, i, bonus_group, tileset, saves, output,
                   scaleVars, parseVars>>

\* Line 203 and __main__.py line 19: the loop is over, the tileset is saved.
Save ==
    /\ pc = "loop"
    /\ i = Len(files)
    /\ saves' = saves + 1
    /\ output' = <<tileset>>
    /\ pc' = "exit"
    /\ UNCHANGED <<argv, isdir, globbed, files, i, bonus_group, tileset, error, stdout,
                   scaleVars, parseVars>>

\* __main__.py line 19 raising: the output path cannot be written.
SaveRaises ==
    /\ pc = "loop"
    /\ i = Len(files)
    /\ saves' = saves + 1
    /\ error' = "save"
    /\ pc' = "exit"
    /\ UNCHANGED <<argv, isdir, globbed, files, i, bonus_group, tileset, output, stdout,
                   scaleVars, parseVars>>

NextMain ==
    \/ MainUsage
    \/ MainNotDir
    \/ StartTileset
    \/ StartTilesetRaises
    \/ ProcessFile
    \/ ProcessFileRaises
    \/ Save
    \/ SaveRaises

SpecTileset == InitMain /\ [][NextMain]_vars

\* ------------------------------------------------------------ claims, mktilepair
Scaled == tpc \in {"scaled", "resized", "pasted", "failed"}

\* Whether the second fit step shrank the scale.
Shrunk == scale[2] # Max2(w, h)

\* C1: for every source size, in the landscape and in the portrait-or-square
\* branch, the scaled size fits the content box: w_scaled <= TILE_CONTENTWIDTH
\* and h_scaled <= TILE_CONTENTHEIGHT.
C1_FitsContentBox ==
    Scaled => w_scaled <= TILE_CONTENTWIDTH /\ h_scaled <= TILE_CONTENTHEIGHT

\* C1 witness: a square image, whose single-axis scale would make it
\* 116 wide, has been shrunk to the full content width.
C1_Witness ==
    /\ tpc = "scaled" /\ w = h /\ Shrunk
    /\ w_scaled = TILE_CONTENTWIDTH

\* C7: the scaled size keeps the aspect ratio within one pixel:
\* |w_scaled * h - h_scaled * w| <= max(w, h), also when the second fit step
\* shrinks the scale.
C7_AspectWithinOnePixel ==
    Scaled => Abs(w_scaled * h - h_scaled * w) <= Max2(w, h)

\* C7 witness: a portrait image that needed the second fit step and whose
\* scaled sides are not exactly proportional to its sides.
C7_Witness ==
    /\ tpc = "scaled" /\ w < h /\ Shrunk
    /\ w_scaled * h # h_scaled * w

\* C9: the paste position puts the scaled image entirely inside the tile
\* canvas, despite the negative y offset.
C9_PasteInsideTile ==
    tpc = "pasted" =>
        /\ 0 <= x_dst /\ x_dst + w_scaled <= TILE_WIDTH
        /\ 0 <= y_dst /\ y_dst + h_scaled <= TILE_HEIGHT

\* C9 witness: content of the full content height and width has been pasted.
C9_Witness ==
    /\ tpc = "pasted"
    /\ h_scaled = TILE_CONTENTHEIGHT /\ w_scaled = TILE_CONTENTWIDTH

\* C10: the size passed to resize is non-degenerate for every source image:
\* w_scaled >= 1 and h_scaled >= 1.
C10_NonDegenerateSize ==
    Scaled => w_scaled >= 1 /\ h_scaled >= 1

\* ------------------------------------------------------------ claims, mktileset
Range(l) == {l[k] : k \in DOMAIN l}

\* mktileset has started: files is the sorted enumeration.
InTileset == pc = "loop" \/ (pc = "exit" /\ error \in {None, "file", "save"})

\* The pixel of canvas ts at (x, y): <<tile, dx, dy>>, pixel (dx, dy) of the
\* tile pasted last over (x, y), or <<>> where the blank tileset shows.
PixelAt(ts, x, y) ==
    LET over == {k \in DOMAIN ts : /\ ts[k].x <= x /\ x < ts[k].x + TILE_WIDTH
                                  /\ ts[k].y <= y /\ y < ts[k].y + TILE_HEIGHT}
    IN  IF over = {} THEN <<>>
        ELSE LET k == CHOOSE m \in over : \A j \in over : j <= m
             IN  <<ts[k].img, x - ts[k].x, y - ts[k].y>>

\* The frame color seen in the cell of index idx, row 0 (normal) or 1
\* (selected), of canvas ts; None where there is no frame or no tile.
FrameAt(ts, idx, row) ==
    LET px == PixelAt(ts, idx * TILE_WIDTH, row * TILE_HEIGHT)
    IN  IF px = <<>> THEN None ELSE px[1].frame

\* C2: check_bonus_group maps index 33..36 to 1, 38..41 to 2 and every
\* other index (0, 32, 37, 42 among them) to none.
C2_BonusClassification ==
    (InTileset /\ i >= 1) =>
        bonus_group = IF 33 <= i - 1 /\ i - 1 <= 36 THEN 1
                      ELSE IF 38 <= i - 1 /\ i - 1 <= 41 THEN 2
                      ELSE NoGroup

\* C2 witness: index 42, the first after group 2, has been classified as none.
C2_Witness == pc = "loop" /\ i - 1 = 42 /\ bonus_group = NoGroup

\* A run over exactly 41 files has saved its tileset.
Saved41 == pc = "exit" /\ error = None /\ Len(files) = 41 /\ output # <<>>

\* The cell of index idx of the saved tileset bears the frame of group g.
BearsFrame(idx, g) ==
    /\ FrameAt(output[1], idx, 0) = BONUS_GROUP_COLORS[g + 1][1]
    /\ FrameAt(output[1], idx, 1) = BONUS_GROUP_COLORS[g + 1][2]

BearsNoFrame(idx) ==
    /\ FrameAt(output[1], idx, 0) = None
    /\ FrameAt(output[1], idx, 1) = None

Rank(f) ==
    Cardinality({g \in Range(globbed) : StrLess(Basename(g), Basename(f))})

\* C4: whatever order the enumeration returns the files in, the file of
\* lexicographic rank k is processed k-th, its normal tile pasted at
\* (k * TILE_WIDTH, 0) and its selected tile at (k * TILE_WIDTH, TILE_HEIGHT).
C4_FilenameOrder ==
    InTileset =>
        /\ Len(tileset) = 2 * i
        /\ \A f \in Range(globbed) :
              LET k == Rank(f)
              IN  k < i =>
                    /\ tileset[2 * k + 1].img.src = f
                    /\ tileset[2 * k + 1].img.bg = "blank"
                    /\ tileset[2 * k + 1].x = k * TILE_WIDTH
                    /\ tileset[2 * k + 1].y = 0
                    /\ tileset[2 * k + 2].img.src = f
                    /\ tileset[2 * k + 2].img.bg = "blank_selected"
                    /\ tileset[2 * k + 2].x = k * TILE_WIDTH
                    /\ tileset[2 * k + 2].y = TILE_HEIGHT

\* C4 witness: the enumeration returned "2", "10", "1"; all three are
\* pasted, "10" between "1" and "2".
C4_Witness ==
    /\ pc = "loop" /\ i = 3
    /\ globbed = <<InPath(<<"2">>), InPath(<<"1", "0">>), InPath(<<"1">>)>>
    /\ tileset[3].img.src = InPath(<<"1", "0">>)

\* C5: the output file is written at most once, and only after every file
\* has been processed and pasted; when the processing of a file fails, the run
\* ends with no output file, however many tiles were pasted before.
C5_SaveOnceAtEnd ==
    /\ saves <= 1
    /\ saves = 1 => /\ pc = "exit"
                    /\ i = Len(files)
                    /\ Len(files) = Len(globbed)
                    /\ Len(tileset) = 2 * Len(files)
    /\ output # <<>> => saves = 1 /\ output = <<tileset>>
    /\ error = "file" => pc = "exit" /\ saves = 0 /\ output = <<>>
    /\ (pc = "exit" /\ i < Len(files)) => output = <<>>

\* C5 witness: the third file failed after two were pasted; nothing is written.
C5_Witness ==
    /\ pc = "exit" /\ error = "file"
    /\ i = 2 /\ Len(tileset) = 4
    /\ output = <<>>

\* The rectangles of pastes a and b have no pixel in common.
Disjoint(a, b) ==
    \/ a.x + TILE_WIDTH <= b.x \/ b.x + TILE_WIDTH <= a.x
    \/ a.y + TILE_HEIGHT <= b.y \/ b.y + TILE_HEIGHT <= a.y

\* C8: the paste rectangles of different indices (and the two of one index)
\* are disjoint, so the cell of every index processed so far still holds the
\* tile pair generated for it.  The cells are checked at their corner pixels:
\* of two equal-sized rectangles that overlap, each covers a corner of the
\* other.
C8_PastesDisjoint ==
    InTileset =>
        /\ \A a, b \in DOMAIN tileset : a # b => Disjoint(tileset[a], tileset[b])
        /\ \A k \in 0..(i - 1), row \in {0, 1},
              dx \in {0, TILE_WIDTH - 1}, dy \in {0, TILE_HEIGHT - 1} :
              PixelAt(tileset, k * TILE_WIDTH + dx, row * TILE_HEIGHT + dy)
                  = <<TilePairFor(files[k + 1], k)[row + 1], dx, dy>>

\* C8 witness: 41 files are pasted and the first cell still shows the first
\* file's tiles.
C8_Witness ==
    /\ pc = "loop" /\ i = 41
    /\ PixelAt(tileset, TILE_WIDTH - 1, 0)[1].src = files[1]
    /\ PixelAt(tileset, 0, 2 * TILE_HEIGHT - 1)[1].src = files[1]

\* ------------------------------------------------------------ claims, parseparams
\* A message names x when the tokens x occur in it.
NamesIn(msg, x) ==
    \E k \in 1..(Len(msg) - Len(x) + 1) : SubSeq(msg, k, k + Len(x) - 1) = x

\* What a segment __K_V is: a valid resample, a bad resample value, or an
\* unknown key.
SegKind(kv) ==
    IF Lower(kv[1]) = "resample"
    THEN IF kv[2] \in ResamplingMembers THEN "valid" ELSE "badvalue"
    ELSE "unknownkey"

BadSegs(kvs) == SelectSeq(kvs, LAMBDA kv : SegKind(kv) # "valid")

ValidSegs(kvs) == SelectSeq(kvs, LAMBDA kv : SegKind(kv) = "valid")

\* parseparams has returned for the file [base]__K_V[__K_V].[png]
ReturnedFor(kvs) ==
    /\ ppc = "returned"
    /\ \E base \in {<<>>, <<"foo">>, <<"1">>}, ext \in {<<>>, <<"png">>} :
          file = SourceDir \o <<"/">> \o base \o Segments(kvs) \o <<".">> \o ext

\* The dict a list of segments yields: the last valid resample value, if any.
YieldsDict(kvs) ==
    LET ok == ValidSegs(kvs)
    IN  IF ok = <<>> THEN parsed = EmptyDict
        ELSE DOMAIN parsed = {"resample"} /\ parsed["resample"] = ok[Len(ok)][2]

\* C6: parseparams reports each bad segment with exactly one warning; the
\* warning for an invalid resample value names both "resample" and the
\* offending value, the warning for an unknown key names the key; a valid
\* segment yields {resample: V} and no warning.
C6_WarningNamesValue ==
    \A kvs \in KVLists :
        ReturnedFor(kvs) =>
            LET bad == BadSegs(kvs)
            IN  /\ YieldsDict(kvs)
                /\ Len(messages) = Len(bad)
                /\ \A j \in 1..Len(bad) :
                      IF SegKind(bad[j]) = "badvalue"
                      THEN /\ NamesIn(messages[j], <<"resample">>)
                           /\ NamesIn(messages[j], <<bad[j][2]>>)
                      ELSE NamesIn(messages[j], <<bad[j][1]>>)

\* The part of C6 the code does meet: the dict, the number of warnings and
\* of printed lines, the key named for an unknown key; for an invalid
\* resample value the warning is one fixed text naming "resample", and the
\* value shows only in the header line, the file name.
C6_AllButTheValue ==
    \A kvs \in KVLists :
        ReturnedFor(kvs) =>
            LET bad == BadSegs(kvs)
            IN  /\ YieldsDict(kvs)
                /\ Len(messages) = Len(bad)
                /\ Len(stdout) = IF bad = <<>> THEN 0 ELSE Len(bad) + 1
                /\ \A j \in 1..Len(bad) :
                      IF SegKind(bad[j]) = "badvalue"
                      THEN /\ messages[j] =
                                <<"Invalid value for parameter '", "resample", "'.">>
                           /\ NamesIn(stdout[1], <<bad[j][2]>>)
                      ELSE NamesIn(messages[j], <<bad[j][1]>>)

====
